---- MODULE Spec2Model ----
(***************************************************************************)
(* The CTS framework of cts_framework.h: the timeout-supervised execution  *)
(* primitive CTSBase::ExecuteWithTimeout and the coverage registry         *)
(* (RegisterCase, RegisterAllFunctions, ReportUncovered,                   *)
(* GetCoveragePercentage), the tests the CTS_ macros declare and the       *)
(* engine's run of one of them with its hooks, the tail of main(), and the *)
(* registry operations under CTSBase::mtx when several threads call them.  *)
(*                                                                         *)
(* Time is discrete.  A step of a thread takes no time; time passes only   *)
(* in Tick, and Tick waits for every step that is due at the current       *)
(* instant (a body whose run time has elapsed, a deadline that has been    *)
(* reached), so a body's run time and a call's deadline are exact.  Steps  *)
(* due at the same instant are taken in any order.                         *)
(***************************************************************************)
EXTENDS Integers, Sequences, FiniteSets, TLC

VARIABLES
    sup,        \* the thread calling ExecuteWithTimeout: pc, current call, time left
    promise,    \* per call: the local std::promise<bool> (lifetime and shared state)
    workers,    \* per call: the std::thread running the lambda
    ncalls,     \* how many calls of ExecuteWithTimeout were made
    ret,        \* what the last finished call handed to its caller, with its inputs
    outcomes,   \* the (case, value) pairs the finished calls have handed out so far
    crashed,    \* the process was ended (std::terminate, memory fault)
    all_functions,          \* CTSBase::all_functions
    registered_functions,   \* CTSBase::registered_functions
    report,     \* what the last ReportUncovered call printed
    coverage,   \* what the last GetCoveragePercentage call returned
    mainpc,     \* where main() stands: run, ran, reported, exit, returned
    last_call,  \* the last RegisterCase or RegisterAllFunctions call and what it overwrote
    exit,       \* main()'s local result and the status main() returned
    declared,   \* the tests declared through the CTS_ macros
    run,        \* the engine's run of one test: phase, test, what was executed
    mtx,        \* CTSBase::mtx: 0 when free, else the thread that holds it
    thr         \* per thread: the registry operation it is in, and where

vars == <<sup, promise, workers, ncalls, ret, outcomes, crashed,
          all_functions, registered_functions, report, coverage, mainpc,
          last_call, exit, declared, run, mtx, thr>>
supVars == <<sup, promise, workers, ncalls, ret, outcomes, crashed>>
regVars == <<all_functions, registered_functions, report, coverage, mainpc>>
histVars == <<last_call, exit>>
\* everything ExecuteWithTimeout leaves alone
runVars == <<declared, run>>
lockVars == <<mtx, thr>>
nonSupVars == <<regVars, histVars, runVars, lockVars>>

----------------------------------------------------------------------------
(* Bounds of the model *)

MaxCalls == 2
MaxTimeout == 1
MaxTests == 1
MaxThreads == 2

CallIds == 1..MaxCalls
Timeouts == -1..MaxTimeout
Durations == 0..(MaxTimeout + 1)
\* a body returns normally or throws after dur units of time, or never ends
Bodies == [kind : {"ok", "fault"}, dur : Durations] \cup {[kind |-> "hang", dur |-> 0]}

----------------------------------------------------------------------------
(* ExecuteWithTimeout *)

NoPromise == [state |-> "none", value |-> "unset", by |-> 0]
DeadPromise == [state |-> "destroyed", value |-> "unset", by |-> 0]
NoWorker == [pc |-> "none", kind |-> "ok", left |-> 0, detached |-> FALSE]
ExitedWorker == [pc |-> "exited", kind |-> "ok", left |-> 0, detached |-> FALSE]
NoBody == [kind |-> "ok", dur |-> 0]
SupIdle == [pc |-> "idle", call |-> 0, timeout_ms |-> 0, body |-> NoBody, left |-> 0]

\* wait_for(d): a duration that is zero or negative has elapsed at once
WaitBudgetLate(timeout_ms) == IF timeout_ms > 0 THEN timeout_ms + 1 ELSE 0
WaitBudget(timeout_ms) == IF timeout_ms > 0 THEN timeout_ms ELSE 0

\* the value the lambda hands to promise.set_value
DeliveredValueSwapped(kind) == IF kind = "ok" THEN "true" ELSE "true"
DeliveredValue(kind) == IF kind = "ok" THEN "true" ELSE "false"

\* future.wait_for(...) == std::future_status::timeout
WaitTimesOut(left, value) == left = 0 /\ value = "unset"

\* the value returned on the timeout path
TimeoutResultTrue == TRUE
TimeoutResult == FALSE

\* future.get() on the completion path
FutureGet(value) == value = "true"

Ready(c) == promise[c].value # "unset"

NoReturn == [path |-> "none"]

\* which of the three cases a return stands for
Case(path, kind) ==
    IF path = "timeout" THEN "timeout"
    ELSE IF kind = "ok" THEN "completed" ELSE "faulted"

Return(path, value) ==
    /\ ret' = [timeout_ms |-> sup.timeout_ms, kind |-> sup.body.kind,
               dur |-> sup.body.dur, path |-> path, value |-> value]
    /\ outcomes' = outcomes \cup {[case |-> Case(path, sup.body.kind), value |-> value]}

NoReport == [printed |-> FALSE]
NoCoverage == [returned |-> FALSE]

\* no registry call was made yet; main() has not returned yet
NoCall == [op |-> "none", name |-> "", info |-> <<>>, old |-> <<>>, dropped |-> FALSE]
NoExit == [returned |-> FALSE, result |-> 0, good |-> FALSE, status |-> 0]

\* threads that call into the registry at the same time
Threads == 1..MaxThreads
NoOp == [pc |-> "idle", op |-> "none", key |-> "", info |-> <<>>, local |-> <<>>,
         result |-> <<>>]

\* the engine runs no test
NoRun == [pc |-> "idle", test |-> <<>>, events |-> <<>>, failures |-> {}, escaped |-> FALSE]

Init ==
    /\ sup = SupIdle
    /\ promise = [c \in CallIds |-> NoPromise]
    /\ workers = [c \in CallIds |-> NoWorker]
    /\ ncalls = 0
    /\ ret = NoReturn
    /\ outcomes = {}
    /\ crashed = FALSE
    /\ all_functions = {}
    /\ registered_functions = [n \in {} |-> 0]
    /\ report = NoReport
    /\ coverage = NoCoverage
    /\ mainpc = "run"
    /\ last_call = NoCall
    /\ exit = NoExit
    /\ declared = {}
    /\ run = NoRun
    /\ mtx = 0
    /\ thr = [t \in Threads |-> NoOp]

\* lines 80-94: the promise and the future are created, the worker is started
Call(timeout_ms, body) ==
    /\ ~crashed
    /\ sup.pc = "idle"
    /\ ncalls < MaxCalls
    /\ ncalls' = ncalls + 1
    /\ promise' = [promise EXCEPT ![ncalls'] =
                      [state |-> "alive", value |-> "unset", by |-> 0]]
    /\ workers' = [workers EXCEPT ![ncalls'] =
                      [pc |-> "running", kind |-> body.kind,
                       left |-> body.dur, detached |-> FALSE]]
    /\ sup' = [pc |-> "waiting", call |-> ncalls', timeout_ms |-> timeout_ms,
               body |-> body, left |-> WaitBudget(timeout_ms)]
    /\ UNCHANGED <<ret, outcomes, crashed, nonSupVars>>

\* line 85: test_func() returns or throws
BodyReturn(c) ==
    /\ ~crashed
    /\ workers[c].pc = "running"
    /\ workers[c].kind # "hang"
    /\ workers[c].left = 0
    /\ workers' = [workers EXCEPT ![c].pc = "bodyDone"]
    /\ UNCHANGED <<sup, promise, ncalls, ret, outcomes, crashed, nonSupVars>>

\* promise.set_value(v) by worker c on the promise of call target: a second
\* set_value throws std::future_error, which the lambda's handler answers
\* with another set_value, whose exception leaves the thread: std::terminate
SetOn(c, target, v) ==
    IF promise[target].value = "unset"
    THEN /\ promise' = [promise EXCEPT ![target].value = v, ![target].by = c]
         /\ workers' = [workers EXCEPT ![c] = ExitedWorker]
         /\ UNCHANGED crashed
    ELSE /\ crashed' = TRUE
         /\ UNCHANGED <<promise, workers>>

\* lines 86-92: promise.set_value through the captured reference &promise.
\* After the call has returned the reference dangles: the write goes to dead
\* memory and is lost, or faults, or lands on the promise that the call now
\* in progress keeps in the same stack slot.
SetValue(c) ==
    /\ ~crashed
    /\ workers[c].pc = "bodyDone"
    /\ LET v == DeliveredValue(workers[c].kind) IN
        IF promise[c].state = "alive"
        THEN SetOn(c, c, v)
        ELSE \/ /\ workers' = [workers EXCEPT ![c] = ExitedWorker]
                /\ UNCHANGED <<promise, crashed>>
             \/ /\ crashed' = TRUE
                /\ UNCHANGED <<promise, workers>>
             \/ /\ sup.pc \in {"waiting", "joining"}
                /\ SetOn(c, sup.call, v)
    /\ UNCHANGED <<sup, ncalls, ret, outcomes, nonSupVars>>

\* line 97, else branch: wait_for found the shared state ready
WaitReady ==
    /\ ~crashed
    /\ sup.pc = "waiting"
    /\ ~WaitTimesOut(sup.left, promise[sup.call].value)
    /\ Ready(sup.call)
    /\ sup' = [sup EXCEPT !.pc = "joining"]
    /\ UNCHANGED <<promise, workers, ncalls, ret, outcomes, crashed, nonSupVars>>

\* lines 104-105: test_thread.join(); return future.get(); the locals die
Join ==
    /\ ~crashed
    /\ sup.pc = "joining"
    /\ workers[sup.call].pc = "exited"
    /\ Return("completed", FutureGet(promise[sup.call].value))
    /\ promise' = [promise EXCEPT ![sup.call] = DeadPromise]
    /\ sup' = SupIdle
    /\ UNCHANGED <<workers, ncalls, crashed, nonSupVars>>

\* lines 97-101: timeout: detach, report, return false; the locals die
WaitTimeout ==
    /\ ~crashed
    /\ sup.pc = "waiting"
    /\ WaitTimesOut(sup.left, promise[sup.call].value)
    /\ workers' = [workers EXCEPT ![sup.call].detached = TRUE]
    /\ Return("timeout", TimeoutResult)
    /\ promise' = [promise EXCEPT ![sup.call] = DeadPromise]
    /\ sup' = SupIdle
    /\ UNCHANGED <<ncalls, crashed, nonSupVars>>

\* a step is due at the present instant
Due ==
    \/ sup.pc = "waiting" /\ (sup.left = 0 \/ Ready(sup.call))
    \/ sup.pc = "joining" /\ workers[sup.call].pc = "exited"
    \/ \E c \in CallIds :
          \/ workers[c].pc = "bodyDone"
          \/ workers[c].pc = "running" /\ workers[c].kind # "hang" /\ workers[c].left = 0

Counting(c) == workers[c].pc = "running" /\ workers[c].kind # "hang" /\ workers[c].left > 0

\* one unit of time passes
Tick ==
    /\ ~crashed
    /\ ~Due
    /\ (sup.pc = "waiting" /\ sup.left > 0) \/ (\E c \in CallIds : Counting(c))
    /\ sup' = IF sup.pc = "waiting" /\ sup.left > 0
              THEN [sup EXCEPT !.left = @ - 1] ELSE sup
    /\ workers' = [c \in CallIds |->
                     IF Counting(c) THEN [workers[c] EXCEPT !.left = @ - 1]
                     ELSE workers[c]]
    /\ UNCHANGED <<promise, ncalls, ret, outcomes, crashed, nonSupVars>>

TimeoutNext ==
    \/ \E t \in Timeouts, b \in Bodies : Call(t, b)
    \/ \E c \in CallIds : BodyReturn(c)
    \/ \E c \in CallIds : SetValue(c)
    \/ WaitReady
    \/ Join
    \/ WaitTimeout
    \/ Tick

TimeoutSpec == Init /\ [][TimeoutNext]_vars

\* every thread that can take a step is scheduled, and time does not stop
FairTimeoutSpec ==
    /\ TimeoutSpec
    /\ WF_vars(Tick)
    /\ WF_vars(WaitReady)
    /\ WF_vars(Join)
    /\ WF_vars(WaitTimeout)
    /\ \A c \in CallIds : WF_vars(BodyReturn(c)) /\ WF_vars(SetValue(c))

----------------------------------------------------------------------------
(* The registry and the coverage report *)

FunctionIds == {"A", "B"}
FunctionVersions == {"v1", "v2"}
TestSuites == {"Suite"}
TestNames == {"T1", "T2"}

CTSFunctionInfo(id, version, pre_check, post_check) ==
    [function_id |-> id, function_version |-> version,
     pre_check_func |-> pre_check, post_check_func |-> post_check]

\* what a test case registers: {id, version} or {id, version, pre_check, post_check}
CaseInfos ==
    {CTSFunctionInfo(id, v, "null", "null") : id \in FunctionIds, v \in FunctionVersions}
    \cup {CTSFunctionInfo("A", "v1", "pre", "post"), CTSFunctionInfo("B", "v2", "pre", "null")}

\* what main() hands to RegisterAllFunctions: sets of {id, version}
UniverseInfos ==
    {CTSFunctionInfo(id, v, "null", "null") : id \in FunctionIds, v \in FunctionVersions}

\* CTSFunctionInfo::operator==
EqualWithHooks(a, b) == a = b
Equal(a, b) ==
    a.function_id = b.function_id /\ a.function_version = b.function_version

\* the fields operator== reads
Identity(info) == <<info.function_id, info.function_version>>

FullTestName(test_suite, test_name) == test_suite \o "." \o test_name

\* std::unordered_set<CTSFunctionInfo>: find and insert go by operator==
Find(set, info) == \E x \in set : Equal(x, info)
Insert(set, info) == IF Find(set, info) THEN set ELSE set \cup {info}

\* the loop "for pair in registered_functions: registered_function_infos.insert(pair.second)"
RECURSIVE InsertAll(_, _, _)
InsertAll(regs, names, set) ==
    IF names = {} THEN set
    ELSE LET n == CHOOSE x \in names : TRUE
         IN InsertAll(regs, names \ {n}, Insert(set, regs[n]))

RegisteredFunctionInfos(regs) == InsertAll(regs, DOMAIN regs, {})

\* the loop that collects the members of all_functions not found among the infos
Uncovered(all, infos) == {func \in all : ~Find(infos, func)}

\* the loop "for func in registered_function_infos: count_map[func]++"
RECURSIVE CountInto(_, _)
CountInto(infos, count_map) ==
    IF infos = {} THEN count_map
    ELSE LET func == CHOOSE x \in infos : TRUE
             k == Identity(func)
             old == IF k \in DOMAIN count_map THEN count_map[k] ELSE 0
         IN CountInto(infos \ {func},
                      [x \in DOMAIN count_map \cup {k} |->
                          IF x = k THEN old + 1 ELSE count_map[x]])

CountMap(infos) == CountInto(infos, [x \in {} |-> 0])

\* a double, kept as the fraction it stands for, in lowest terms
RECURSIVE Gcd(_, _)
Gcd(a, b) == IF b = 0 THEN a ELSE Gcd(b, a % b)
Fraction(num, den) == LET g == Gcd(num, den) IN
    IF num = 0 THEN <<0, 1>> ELSE <<num \div g, den \div g>>

\* (double)count / total * 100.0
PercentageTruncated(count, total) == Fraction((count \div total) * 100, 1)
Percentage(count, total) == Fraction(count * 100, total)

\* GetCoveragePercentage's loop: the members of all_functions found among the infos
CoveredCountPerCase(all, infos) ==
    Cardinality({n \in DOMAIN registered_functions : Find(all, registered_functions[n])})
CoveredCountRegistered(all, infos) == Cardinality(infos)
CoveredCount(all, infos) == Cardinality({func \in all : Find(infos, func)})

\* the value GetCoveragePercentage returns for the present registry
CoveragePercentage ==
    IF all_functions = {} THEN Fraction(0, 1)
    ELSE Percentage(CoveredCount(all_functions, RegisteredFunctionInfos(registered_functions)),
                    Cardinality(all_functions))

\* the uncovered list ReportUncovered builds for the present registry
UncoveredNow == Uncovered(all_functions, RegisteredFunctionInfos(registered_functions))

\* registered_functions[full_test_name] = info
AssignIfAbsent(regs, key, info) ==
    IF key \in DOMAIN regs THEN regs
    ELSE [n \in DOMAIN regs \cup {key} |-> IF n = key THEN info ELSE regs[n]]
Assign(regs, key, info) ==
    [n \in DOMAIN regs \cup {key} |-> IF n = key THEN info ELSE regs[n]]

\* all_functions = all
AssignAllMerged(current, all) == current \cup all
AssignAll(current, all) == all

RegisterCase(test_suite, test_name, info) ==
    /\ mainpc = "run"
    /\ LET full_test_name == FullTestName(test_suite, test_name) IN
        /\ registered_functions' = Assign(registered_functions, full_test_name, info)
        /\ last_call' = [op |-> "RegisterCase", name |-> full_test_name, info |-> info,
                         old |-> IF full_test_name \in DOMAIN registered_functions
                                 THEN Identity(registered_functions[full_test_name])
                                 ELSE <<>>,
                         dropped |-> FALSE]
    /\ UNCHANGED <<all_functions, report, coverage, mainpc, exit, supVars>>

RegisterAllFunctions(all) ==
    /\ mainpc = "run"
    /\ all_functions' = AssignAll(all_functions, all)
    /\ last_call' = [op |-> "RegisterAllFunctions", name |-> "", info |-> all, old |-> <<>>,
                     dropped |-> all_functions \ all # {}]
    /\ UNCHANGED <<registered_functions, report, coverage, mainpc, exit, runVars, lockVars, supVars>>

\* main(), line 153: RUN_ALL_TESTS() hands its result to main
Results == {0, 1}
RunAllTests(result) ==
    /\ mainpc = "run"
    /\ mainpc' = "ran"
    /\ exit' = [exit EXCEPT !.result = result]
    /\ UNCHANGED <<all_functions, registered_functions, report, coverage, last_call,
                   runVars, lockVars, supVars>>

\* main(), line 157
ReportUncovered ==
    /\ mainpc = "ran"
    /\ LET infos == RegisteredFunctionInfos(registered_functions)
           uncovered == Uncovered(all_functions, infos)
           count_map == CountMap(infos)
       IN report' =
            [printed |-> TRUE,
             total |-> Cardinality(all_functions),
             registered |-> Cardinality(infos),
             uncovered |-> uncovered,
             count_map |-> count_map,
             warned |-> {k \in DOMAIN count_map : count_map[k] > 1},
             coverage |-> IF all_functions = {} THEN Fraction(0, 1)
                          ELSE Percentage(Cardinality(all_functions) - Cardinality(uncovered),
                                          Cardinality(all_functions))]
    /\ mainpc' = "reported"
    /\ UNCHANGED <<all_functions, registered_functions, coverage, histVars, runVars, lockVars, supVars>>

\* main(), line 159
GetCoveragePercentage ==
    /\ mainpc = "reported"
    /\ coverage' = [returned |-> TRUE, value |-> CoveragePercentage]
    /\ mainpc' = "exit"
    /\ UNCHANGED <<all_functions, registered_functions, report, histVars, runVars, lockVars, supVars>>

\* main(), lines 162-166: coverage >= 80.0
GoodCoverage(value) == value[1] >= 80 * value[2]

\* main(), line 168: return result
ExitStatusGated(result, value) == IF GoodCoverage(value) THEN result ELSE 1
ExitStatus(result, value) == result

\* main(), lines 162-168: the threshold message, then the return
MainReturn ==
    /\ mainpc = "exit"
    /\ mainpc' = "returned"
    /\ exit' = [exit EXCEPT !.returned = TRUE,
                            !.good = GoodCoverage(coverage.value),
                            !.status = ExitStatus(exit.result, coverage.value)]
    /\ UNCHANGED <<all_functions, registered_functions, report, coverage, last_call,
                   runVars, lockVars, supVars>>

RegistryNext ==
    \/ \E s \in TestSuites, t \in TestNames, i \in CaseInfos :
            RegisterCase(s, t, i) /\ UNCHANGED <<runVars, lockVars>>
    \/ \E all \in SUBSET UniverseInfos : RegisterAllFunctions(all)
    \/ \E result \in Results : RunAllTests(result)
    \/ ReportUncovered
    \/ GetCoveragePercentage
    \/ MainReturn

RegistrySpec == Init /\ [][RegistryNext]_vars

----------------------------------------------------------------------------
(* Tests declared through the CTS_ macros, and the engine's run of a test *)

Macros ==
    {"CTS_TEST", "CTS_TEST_F", "CTS_TEST_F_WITH_POSTCHECK", "CTS_TEST_WITH_TIMEOUT",
     "CTS_TEST_F_WITH_TIMEOUT", "CTS_TEST_F_WITH_POSTCHECK_TIMEOUT"}

\* the macros that end in TEST_F(test_fixture, test_name): the test is a
\* subclass of the user's fixture
FixtureMacros == {"CTS_TEST_F", "CTS_TEST_F_WITH_POSTCHECK"}

\* the macros that take pre_check and post_check
HookMacros == {"CTS_TEST_F_WITH_POSTCHECK", "CTS_TEST_F_WITH_POSTCHECK_TIMEOUT"}

\* the macros that generate a class CTS_TIMEOUT_TEST_... : public ::testing::Test
\* and end in TEST_F(CTS_TIMEOUT_TEST_..., test_name) {}
TimeoutMacros ==
    {"CTS_TEST_WITH_TIMEOUT", "CTS_TEST_F_WITH_TIMEOUT", "CTS_TEST_F_WITH_POSTCHECK_TIMEOUT"}

\* what a macro hands to RegisterCase
MacroInfos(macro) ==
    IF macro \in HookMacros THEN CaseInfos
    ELSE {i \in CaseInfos : i.pre_check_func = "null" /\ i.post_check_func = "null"}

\* the first argument of the TEST / TEST_F the macro ends in, as the engine
\* reports it in current_test_info()->test_case_name()
TestCaseName(macro, suite, name) ==
    CASE macro = "CTS_TEST_WITH_TIMEOUT" ->
            "CTS_TIMEOUT_TEST_" \o suite \o "_" \o name
      [] macro \in {"CTS_TEST_F_WITH_TIMEOUT", "CTS_TEST_F_WITH_POSTCHECK_TIMEOUT"} ->
            "CTS_TIMEOUT_TEST_F_" \o suite \o "_" \o name
      [] OTHER -> suite

\* suite_name + "." + test_name of the test the engine is running
CurrentTestName(test) ==
    FullTestName(TestCaseName(test.macro, test.suite, test.name), test.name)

HookOutcomes == {"ok", "fault"}
BodyOutcomes == {"ok", "fail", "fault"}

\* try { hook(); } catch (...) { ADD_FAILURE(); }
RunHookUncaught(r, phase, outcome) ==
    [r EXCEPT !.events = Append(@, [phase |-> phase, outcome |-> outcome]),
              !.escaped = @ \/ outcome = "fault"]
RunHook(r, phase, outcome) ==
    [r EXCEPT !.events = Append(@, [phase |-> phase, outcome |-> outcome]),
              !.failures = IF outcome = "fault" THEN @ \cup {phase} ELSE @]

ExecutePreCheckForCurrentTest(r, outcome) ==
    LET full_test_name == CurrentTestName(r.test) IN
    IF /\ full_test_name \in DOMAIN registered_functions
       /\ registered_functions[full_test_name].pre_check_func # "null"
    THEN RunHook(r, "pre", outcome)
    ELSE r

ExecutePostCheckForCurrentTest(r, outcome) ==
    LET full_test_name == CurrentTestName(r.test) IN
    IF /\ full_test_name \in DOMAIN registered_functions
       /\ registered_functions[full_test_name].post_check_func # "null"
    THEN RunHook(r, "post", outcome)
    ELSE r

\* the lifecycle of a fixture that carries hooks: its SetUp runs the
\* pre-check, its TearDown the post-check
FixtureSetUp(r, outcome) == ExecutePreCheckForCurrentTest(r, outcome)
FixtureTearDown(r, outcome) == ExecutePostCheckForCurrentTest(r, outcome)

\* the block that follows the macro, run by the engine as the test's body;
\* a failed assertion or an exception in it is a failure of the test
RunBody(r, outcome) ==
    [r EXCEPT !.events = Append(@, [phase |-> "body", outcome |-> outcome]),
              !.failures = IF outcome # "ok" THEN @ \cup {"body"} ELSE @]

\* the TestBody of the class TEST / TEST_F generates.  In the timeout macros
\* it is the empty block of "TEST_F(CTS_TIMEOUT_TEST_..., test_name) {}",
\* which overrides the TestBody of the class CTS_TIMEOUT_TEST_... (the one
\* that calls ExecuteWithTimeout and post_check); the block that follows the
\* macro is TimeoutTestBody, which only the overridden TestBody calls.
GeneratedTestBody(r, outcome) ==
    IF r.test.macro \in TimeoutMacros THEN r ELSE RunBody(r, outcome)

\* the static object a macro defines: its constructor registers the case
\* before main() starts the engine.  A suite and case name is declared once.
DeclareTest(macro, suite, name, info) ==
    /\ run.pc = "idle"
    /\ Cardinality(declared) < MaxTests
    /\ \A d \in declared : ~(d.suite = suite /\ d.name = name)
    /\ RegisterCase(suite, name, info)
    /\ declared' = declared \cup
            {[macro |-> macro, suite |-> suite, name |-> name, info |-> info]}
    /\ UNCHANGED <<run, lockVars>>

\* RUN_ALL_TESTS() comes to a declared test
StartTest(test) ==
    /\ mainpc = "run"
    /\ run.pc \in {"idle", "done"}
    /\ test \in declared
    /\ run' = [pc |-> "setup", test |-> test, events |-> <<>>, failures |-> {},
               escaped |-> FALSE]
    /\ UNCHANGED <<declared, regVars, histVars, lockVars, supVars>>

\* the engine calls SetUp() of the test object
SetUp(outcome) ==
    /\ run.pc = "setup"
    /\ run' = [(IF run.test.macro \in FixtureMacros
                THEN FixtureSetUp(run, outcome) ELSE run) EXCEPT !.pc = "body"]
    /\ UNCHANGED <<declared, regVars, histVars, lockVars, supVars>>

\* the engine calls TestBody() of the test object
TestBody(outcome) ==
    /\ run.pc = "body"
    /\ run' = [GeneratedTestBody(run, outcome) EXCEPT !.pc = "teardown"]
    /\ UNCHANGED <<declared, regVars, histVars, lockVars, supVars>>

\* the engine calls TearDown() of the test object, whatever the body did
TearDown(outcome) ==
    /\ run.pc = "teardown"
    /\ run' = [(IF run.test.macro \in FixtureMacros
                THEN FixtureTearDown(run, outcome) ELSE run) EXCEPT !.pc = "done"]
    /\ UNCHANGED <<declared, regVars, histVars, lockVars, supVars>>

RunNext ==
    \/ \E m \in Macros, s \in TestSuites, t \in TestNames :
            \E i \in MacroInfos(m) : DeclareTest(m, s, t, i)
    \/ \E test \in declared : StartTest(test)
    \/ \E o \in HookOutcomes : SetUp(o)
    \/ \E o \in BodyOutcomes : TestBody(o)
    \/ \E o \in HookOutcomes : TearDown(o)

RunSpec == Init /\ [][RunNext]_vars

----------------------------------------------------------------------------
(* The registry operations step by step, called from several threads *)

\* what the threads register and set
LockInfos == {CTSFunctionInfo(id, "v1", "null", "null") : id \in FunctionIds}

\* what the threads register: plain cases and a case with hooks
LockCaseInfos == LockInfos \cup {CTSFunctionInfo("A", "v1", "pre", "post")}

\* the calls a thread can make
LockCalls ==
    {[op |-> "RegisterCase", key |-> FullTestName(s, t), info |-> i] :
        s \in TestSuites, t \in TestNames, i \in LockCaseInfos}
    \cup {[op |-> "RegisterAllFunctions", key |-> "", info |-> all] :
            all \in SUBSET LockInfos}
    \cup {[op |-> "ExecutePreCheckForCurrentTest", key |-> FullTestName(s, t), info |-> <<>>] :
            s \in TestSuites, t \in TestNames}
    \cup {[op |-> "GetCoveragePercentage", key |-> "", info |-> <<>>]}

\* std::lock_guard<std::mutex> lock(mtx) can take the mutex
CanLockAlways(t) == TRUE
CanLock(t) == mtx = 0

\* a thread is between the construction and the destruction of its lock_guard
InCriticalSection(t) ==
    thr[t].pc \in {"read", "write", "compute", "hook", "deadlocked", "unlock"}

\* a thread enters a registry operation (each thread makes one call)
CallRegistry(t, call) ==
    /\ thr[t].pc = "idle"
    /\ thr' = [thr EXCEPT ![t] = [pc |-> "lock", op |-> call.op, key |-> call.key,
                                 info |-> call.info, local |-> <<>>, result |-> <<>>]]
    /\ UNCHANGED <<mtx, regVars, histVars, runVars, supVars>>

\* the first statement of every registry operation: lock_guard lock(mtx)
Lock(t) ==
    /\ thr[t].pc = "lock"
    /\ CanLock(t)
    /\ mtx' = t
    /\ thr' = [thr EXCEPT ![t].pc =
                    IF thr[t].op = "RegisterAllFunctions" THEN "write" ELSE "read"]
    /\ UNCHANGED <<regVars, histVars, runVars, supVars>>

\* the operation reads the map: operator[] and find locate the slot of the
\* key, GetCoveragePercentage collects the registered infos
ReadRegistry(t) ==
    /\ thr[t].pc = "read"
    /\ thr' = [thr EXCEPT ![t] =
            CASE thr[t].op = "RegisterCase" ->
                    [@ EXCEPT !.pc = "write", !.local = registered_functions]
              [] thr[t].op = "ExecutePreCheckForCurrentTest" ->
                    [@ EXCEPT !.pc = IF /\ thr[t].key \in DOMAIN registered_functions
                                        /\ registered_functions[thr[t].key].pre_check_func
                                                # "null"
                                     THEN "hook" ELSE "unlock",
                              !.result = IF thr[t].key \in DOMAIN registered_functions
                                         THEN <<registered_functions[thr[t].key]>>
                                         ELSE <<>>]
              [] OTHER ->
                    [@ EXCEPT !.pc = "compute",
                              !.local = RegisteredFunctionInfos(registered_functions)]]
    /\ UNCHANGED <<mtx, regVars, histVars, runVars, supVars>>

\* the operation writes: the map with the new entry, or the new Universe
WriteRegistry(t) ==
    /\ thr[t].pc = "write"
    /\ IF thr[t].op = "RegisterCase"
       THEN /\ registered_functions' = Assign(thr[t].local, thr[t].key, thr[t].info)
            /\ UNCHANGED all_functions
       ELSE /\ all_functions' = AssignAll(all_functions, thr[t].info)
            /\ UNCHANGED registered_functions
    /\ thr' = [thr EXCEPT ![t].pc = "unlock"]
    /\ UNCHANGED <<mtx, report, coverage, mainpc, histVars, runVars, supVars>>

\* GetCoveragePercentage's second loop, over all_functions, and the division
ComputeCoverage(t) ==
    /\ thr[t].pc = "compute"
    /\ thr' = [thr EXCEPT ![t].pc = "unlock",
                          ![t].result =
                              IF all_functions = {} THEN Fraction(0, 1)
                              ELSE Percentage(CoveredCount(all_functions, thr[t].local),
                                              Cardinality(all_functions))]
    /\ UNCHANGED <<mtx, regVars, histVars, runVars, supVars>>

\* lines 119-125: it->second.pre_check_func() is called inside the scope of
\* the lock_guard; a hook that calls no registry operation returns
HookReturns(t) ==
    /\ thr[t].pc = "hook"
    /\ thr' = [thr EXCEPT ![t].pc = "unlock", ![t].local = <<"returned">>]
    /\ UNCHANGED <<mtx, regVars, histVars, runVars, supVars>>

\* the hook calls a registry operation, whose first statement locks mtx
\* again in the thread that holds it.  Locking a std::mutex one owns is
\* undefined: the thread blocks on itself for good, or lock() throws
\* std::system_error, which the catch of the hook runner turns into a failure.
HookCallsRegistry(t) ==
    /\ thr[t].pc = "hook"
    /\ mtx = t
    /\ \/ thr' = [thr EXCEPT ![t].pc = "deadlocked"]
       \/ thr' = [thr EXCEPT ![t].pc = "unlock", ![t].local = <<"failure">>]
    /\ UNCHANGED <<mtx, regVars, histVars, runVars, supVars>>

\* the lock_guard is destroyed at the end of the operation
Unlock(t) ==
    /\ thr[t].pc = "unlock"
    /\ mtx' = 0
    /\ thr' = [thr EXCEPT ![t].pc = "done"]
    /\ UNCHANGED <<regVars, histVars, runVars, supVars>>

LockNext ==
    \/ \E t \in Threads, call \in LockCalls : CallRegistry(t, call)
    \/ \E t \in Threads : Lock(t)
    \/ \E t \in Threads : ReadRegistry(t)
    \/ \E t \in Threads : WriteRegistry(t)
    \/ \E t \in Threads : ComputeCoverage(t)
    \/ \E t \in Threads : HookReturns(t)
    \/ \E t \in Threads : HookCallsRegistry(t)
    \/ \E t \in Threads : Unlock(t)

LockSpec == Init /\ [][LockNext]_vars

----------------------------------------------------------------------------
(* Claims about ExecuteWithTimeout *)

HasReturned == ret.path # "none"

\* C1: with a timeout T > 0, a call whose body ends before the deadline
\* returns through the completion path with the body's own outcome: true
\* when the body returned normally, false when it threw; never a timeout.
C1_BodyOutcome ==
    (HasReturned /\ ret.timeout_ms > 0 /\ ret.kind # "hang" /\ ret.dur < ret.timeout_ms)
        => /\ ret.path = "completed"
           /\ ret.value = (ret.kind = "ok")

C1_Witness ==
    /\ HasReturned /\ ret.timeout_ms > 0 /\ ret.kind = "fault" /\ ret.dur < ret.timeout_ms
    /\ ret.path = "completed" /\ ret.value = FALSE

C3_Returns == (sup.pc # "idle") ~> (sup.pc = "idle")

\* C4: with timeout_ms <= 0 every call returns false through the timeout
\* path, however quickly the body ends.
C4_Immediate ==
    (HasReturned /\ ret.timeout_ms <= 0) => (ret.path = "timeout" /\ ret.value = FALSE)

\* C5: the completion or fault of a worker abandoned on timeout is ignored:
\* it ends no process and reaches the shared state of no other call.
C5_Ignored ==
    /\ ~crashed
    /\ \A c \in CallIds : promise[c].by \in {0, c}

C20_DeliversWhileAlive ==
    [][\A c \in CallIds : SetValue(c) => promise[c].state = "alive"]_vars

----------------------------------------------------------------------------
(* Claims about the registry and the coverage report *)

UniverseIds == {Identity(f) : f \in all_functions}
RegisteredIds == {Identity(registered_functions[n]) : n \in DOMAIN registered_functions}
Carrying(k) == {n \in DOMAIN registered_functions : Identity(registered_functions[n]) = k}

\* C7: the uncovered identities ReportUncovered reports are the Universe
\* minus the identities carried by the registrations, compared by
\* (id, version) only.
C7_Uncovered ==
    report.printed =>
        {Identity(f) : f \in report.uncovered} = UniverseIds \ RegisteredIds

C7_Witness ==
    /\ report.printed
    /\ report.uncovered # {}
    /\ \E n \in DOMAIN registered_functions :
          /\ registered_functions[n].pre_check_func # "null"
          /\ Identity(registered_functions[n]) \in UniverseIds

\* C8: GetCoveragePercentage returns (Universe identities carried by at
\* least one registration) / (size of the Universe) * 100, and 0 for an
\* empty Universe; ReportUncovered prints the same value.
C8_Percentage ==
    coverage.returned =>
        /\ coverage.value[2] > 0
        /\ IF UniverseIds = {} THEN coverage.value[1] = 0
           ELSE coverage.value[1] * Cardinality(UniverseIds)
                    = 100 * Cardinality(UniverseIds \cap RegisteredIds) * coverage.value[2]
        /\ report.coverage = coverage.value

C8_Witness ==
    /\ coverage.returned
    /\ Cardinality(UniverseIds) = 3
    /\ Cardinality(UniverseIds \cap RegisteredIds) = 2
    /\ coverage.value = <<200, 3>>

\* C9: an identity registered under two or more test names is listed by the
\* report as a duplicate, with a count equal to the number of registrations
\* carrying it.
C9_Duplicates ==
    report.printed =>
        \A k \in RegisteredIds :
            Cardinality(Carrying(k)) >= 2
                => /\ k \in report.warned
                   /\ report.count_map[k] = Cardinality(Carrying(k))

\* C10: registering a further test name against an identity that another
\* registration already carries changes neither the coverage percentage
\* nor the uncovered set.
C10_CountsOnce ==
    [][(\E n \in DOMAIN registered_functions' \ DOMAIN registered_functions :
          \E m \in DOMAIN registered_functions :
              Identity(registered_functions[m]) = Identity(registered_functions'[n]))
        => /\ CoveragePercentage' = CoveragePercentage
           /\ UncoveredNow' = UncoveredNow]_vars

C10_Witness ==
    /\ \E n, m \in DOMAIN registered_functions :
          /\ n # m
          /\ Identity(registered_functions[n]) = Identity(registered_functions[m])
          /\ Identity(registered_functions[n]) \in UniverseIds
    /\ UncoveredNow # {}

\* C11: RegisterCase is last-write-wins per full test name: a call leaves
\* exactly one registration under the name, the identity and hooks it was
\* given, and leaves every other name as it was; re-registering a name adds
\* no registration and is not counted as a duplicate; the identity it replaced
\* stays covered only while another name carries it.
C11_LastWriteWins ==
    [][(last_call'.op = "RegisterCase" /\ mainpc' = "run") =>
        LET n == last_call'.name
            i == last_call'.info
            others == DOMAIN registered_functions \ {n}
        IN /\ DOMAIN registered_functions' = DOMAIN registered_functions \cup {n}
           /\ registered_functions'[n] = i
           /\ \A m \in others : registered_functions'[m] = registered_functions[m]
           /\ n \in DOMAIN registered_functions =>
                LET old == Identity(registered_functions[n]) IN
                /\ Cardinality(DOMAIN registered_functions') =
                        Cardinality(DOMAIN registered_functions)
                /\ (\A m \in others : Identity(registered_functions[m]) # Identity(i))
                    => CountMap(RegisteredFunctionInfos(registered_functions'))[Identity(i)] = 1
                /\ old # Identity(i) =>
                    (old \in RegisteredIds' <=>
                        \E m \in others : Identity(registered_functions[m]) = old)
    ]_vars

\* a name was registered again with another identity; the identity it carried
\* before is in the Universe, no other name carries it, and it is uncovered now
C11_Witness ==
    /\ last_call.op = "RegisterCase"
    /\ last_call.old # <<>>
    /\ last_call.old # Identity(registered_functions[last_call.name])
    /\ last_call.old \in UniverseIds
    /\ last_call.old \notin RegisteredIds
    /\ Cardinality(DOMAIN registered_functions) > 1

\* C12: RegisterAllFunctions replaces the Universe: after a call the Universe
\* is exactly the set that was passed, nothing of the former Universe is
\* merged in, and the registrations are unchanged.
C12_Replaces ==
    [][(last_call'.op = "RegisterAllFunctions" /\ mainpc' = "run") =>
        /\ all_functions' = last_call'.info
        /\ registered_functions' = registered_functions
    ]_vars

\* a call replaced a Universe holding members the new set does not have,
\* with registrations present
C12_Witness ==
    /\ last_call.op = "RegisterAllFunctions"
    /\ last_call.dropped
    /\ all_functions # {}
    /\ all_functions = last_call.info
    /\ DOMAIN registered_functions # {}

\* a <= b for two fractions with positive denominators
LessEq(a, b) == a[1] * b[2] <= b[1] * a[2]

\* C13: RegisterCase never fails and rejects no registration, whether or not
\* the identity is in the Universe or a Universe was set at all; a
\* registration whose identity is outside the Universe is stored, does not
\* appear in the uncovered set and does not raise the coverage percentage.
C13_NeverRejects ==
    /\ [](mainpc = "run" =>
            \A s \in TestSuites, t \in TestNames, i \in CaseInfos :
                ENABLED RegisterCase(s, t, i))
    /\ [][(/\ last_call'.op = "RegisterCase"
           /\ mainpc' = "run"
           /\ Identity(last_call'.info) \notin UniverseIds) =>
            /\ last_call'.name \in DOMAIN registered_functions'
            /\ registered_functions'[last_call'.name] = last_call'.info
            /\ Identity(last_call'.info) \notin {Identity(f) : f \in UncoveredNow'}
            /\ LessEq(CoveragePercentage', CoveragePercentage)
       ]_vars

\* the last call registered an identity outside a Universe that is set and
\* partly covered, and the registration is in the registry
C13_Witness ==
    /\ last_call.op = "RegisterCase"
    /\ Identity(last_call.info) \notin UniverseIds
    /\ registered_functions[last_call.name] = last_call.info
    /\ all_functions # {}
    /\ CoveragePercentage # Fraction(0, 1)
    /\ UncoveredNow # {}

\* the same, before any Universe was set
C13_WitnessNoUniverse ==
    /\ last_call.op = "RegisterCase"
    /\ all_functions = {}
    /\ registered_functions[last_call.name] = last_call.info

----------------------------------------------------------------------------
(* Claims about the hooks and the engine's run of a test *)

\* the phases executed in the present run, in order
Phases == [k \in DOMAIN run.events |-> run.events[k].phase]
Executed(phase) == \E k \in DOMAIN run.events : run.events[k].phase = phase
Faulted(phase) ==
    \E k \in DOMAIN run.events :
        run.events[k].phase = phase /\ run.events[k].outcome = "fault"
Before(p, q) ==
    \E j, k \in DOMAIN run.events :
        j < k /\ run.events[j].phase = p /\ run.events[k].phase = q

C15_PostCheckAlways ==
    (run.pc = "done" /\ run.test.info.post_check_func # "null") =>
        /\ Executed("post")
        /\ ~Before("post", "body")

\* C16: in every run of a test declared with hooks the pre-check is executed
\* and has finished before the body starts, and the post-check starts only
\* after the body; the engine never gets past SetUp of such a test without
\* the pre-check having been executed.
C16_HookOrder ==
    (run.pc # "idle" /\ run.test.macro \in HookMacros) =>
        /\ (run.test.info.pre_check_func # "null" /\ run.pc \in {"body", "teardown", "done"})
                => Executed("pre")
        /\ ~Before("body", "pre")
        /\ ~Before("post", "body")

\* C18: for a test declared through any CTS_ macro, the key its registration
\* is stored under is the full name the engine reports while the test runs,
\* so the lookup by the current test's name finds its registration and hooks.
C18_KeyIsEngineName ==
    \A test \in declared :
        /\ FullTestName(test.suite, test.name) = CurrentTestName(test)
        /\ CurrentTestName(test) \in DOMAIN registered_functions
        /\ registered_functions[CurrentTestName(test)] = test.info

----------------------------------------------------------------------------
(* Claims about main() *)

\* C17: the status main() returns is the result of RUN_ALL_TESTS() for every
\* coverage value: the report and the threshold check leave it alone.
C17_ExitIsEngineResult ==
    exit.returned =>
        /\ report.printed /\ coverage.returned
        /\ exit.status = exit.result

\* main returned 0 with a report printed and a coverage below the threshold
C17_Witness ==
    /\ exit.returned
    /\ report.printed
    /\ all_functions # {}
    /\ ~exit.good
    /\ ~GoodCoverage(coverage.value)
    /\ exit.result = 0 /\ exit.status = 0

\* main returned 1 with full coverage
C17_WitnessGood ==
    /\ exit.returned
    /\ coverage.value = Fraction(100, 1)
    /\ exit.good
    /\ exit.result = 1 /\ exit.status = 1

----------------------------------------------------------------------------
(* Claims about concurrent registry calls *)

\* C19: the registry operations exclude one another under every
\* interleaving: at most one thread is inside an operation, what a thread
\* read inside its operation is what the registry still holds when it acts
\* on it, and after concurrent RegisterCase calls with distinct names every
\* registration is present.
C19_MutualExclusion ==
    /\ \A t, u \in Threads :
            (InCriticalSection(t) /\ InCriticalSection(u)) => t = u
    /\ \A t \in Threads :
        /\ (thr[t].pc = "write" /\ thr[t].op = "RegisterCase")
                => thr[t].local = registered_functions
        /\ thr[t].pc = "compute"
                => thr[t].local = RegisteredFunctionInfos(registered_functions)
        /\ (/\ thr[t].pc = "done" /\ thr[t].op = "RegisterCase"
            /\ \A u \in Threads \ {t} :
                    thr[u].op = "RegisterCase" => thr[u].key # thr[t].key)
                => /\ thr[t].key \in DOMAIN registered_functions
                   /\ registered_functions[thr[t].key] = thr[t].info

\* two threads were in RegisterCase with distinct names at the same time,
\* both are done and both registrations are present
C19_Witness ==
    \E t, u \in Threads :
        /\ t # u
        /\ thr[t].op = "RegisterCase" /\ thr[u].op = "RegisterCase"
        /\ thr[t].key # thr[u].key
        /\ thr[t].pc = "done" /\ thr[u].pc = "done"
        /\ DOMAIN registered_functions = {thr[t].key, thr[u].key}

\* a thread waits for the mutex while another is inside an operation
C19_WitnessContended ==
    \E t, u \in Threads :
        thr[t].pc = "lock" /\ InCriticalSection(u) /\ mtx = u

\* C21: the hook runner does not hold the registry lock while a hook
\* executes: a hook that calls a registry operation runs to completion, and
\* no other thread's registry operation waits for the lock during a hook.
C21_HookOutsideLock ==
    \A t \in Threads :
        /\ thr[t].pc = "hook" =>
                /\ mtx # t
                /\ \A u \in Threads \ {t} : thr[u].pc # "lock"
        /\ thr[t].pc # "deadlocked"
        /\ (thr[t].op = "ExecutePreCheckForCurrentTest" /\ thr[t].pc \in {"unlock", "done"})
                => thr[t].local # <<"failure">>

====
